---- MODULE Spec2Model ----
(***************************************************************************)
(* shorts-scoop: the YouTube feed builder (scripts/build_latest_youtube.js) *)
(* and the feed renderer (assets/app.js).                                  *)
(*                                                                         *)
(* JavaScript strings are sequences of one-character strings.  A character *)
(* outside ASCII is written by its code point ("u96D1").  A JavaScript     *)
(* value whose type matters is a record [type, str, num].                  *)
(***************************************************************************)
EXTENDS Integers, Sequences, FiniteSets, Bags, TLC

VARIABLES
  pc,        \* builder: position of main(); "idle" outside a builder run
  env,       \* builder: [apiKey |-> BOOLEAN], process.env.YOUTUBE_API_KEY set
  opt,       \* builder: the options parseArgs returned
  qi,        \* builder: index of the query of the loop of main
  idSet,     \* builder: the Set of ids, in insertion order
  seen,      \* builder: every videoId a search response has carried (history)
  call,      \* builder: the running (or last) fetchJson call
  data,      \* builder: the parsed body fetchJson returned
  groups,    \* builder: getVideoDetails, the chunks
  gi,        \* builder: getVideoDetails, index of the chunk
  out,       \* builder: getVideoDetails, the items so far
  disk,      \* latest.json (the text written by JSON.stringify)
  writes,    \* builder: number of writeFileSync calls of this run
  exitCode,  \* builder: -1 while running, else the process exit code
  fatal,     \* builder: why the run ended
  cdDuration,  \* duration: the value of contentDetails.duration of one video
  durationSec, \* duration: what parseISODurationToSec returned for it
  verdict,     \* duration: "input", "parsed", then "skipped" or "kept" by main
  video,       \* classifier: [title, channel_title] of one video
  topic,       \* classifier: the topic main gave it; <<>> before
  newest,      \* page: the feed the builder's latest run built
  RAW,         \* page: the snapshot, [set |-> FALSE] for null
  inflight,    \* page: the responses of the fetches not yet resolved (a bag)
  limitSelect, \* page: #limitSelect.value
  sortSelect,  \* page: #sortSelect.value
  qInput,      \* page: #qInput.value
  timers,      \* page: the ids of the pending timers
  winT,        \* page: window.__t, 0 for undefined
  view,        \* page: what render last put in the DOM, and from which inputs
  failed,      \* page: a load failure is displayed
  left,        \* page: for each pending timer, the ms left of its delay
  sinceInput   \* page: ms since the last input event, up to the delay

bvars == <<pc, env, opt, qi, idSet, seen, call, data, groups, gi, out,
           writes, exitCode, fatal>>
dvars == <<cdDuration, durationSec, verdict>>
tvars == <<video, topic>>
rvars == <<newest, RAW, inflight, limitSelect, sortSelect, qInput, timers, winT,
           view, failed, left, sinceInput>>

(***************************************************************************)
(* Bounds of the model.                                                    *)
(***************************************************************************)
NumIds == 2        \* distinct video ids the platform knows
MaxMaxItems == 1   \* largest value given to --max
MaxComponent == 2  \* duration: largest small number of a component
MaxGarbageLen == 3 \* duration: longest arbitrary string tried
MaxFragments == 2  \* classifier: fragments a title is made of
MaxSortItems == 3  \* page: items of a feed drawn for its view counts
MaxTextItems == 2  \* page: items of a feed drawn for its texts
MaxLimit == 3      \* page: largest option of the limit select
MaxInflight == 2   \* page: fetches in flight at once
TickMs == 60       \* page: ms the clock advances in one tick
NowMs == 100000    \* Date.now() of the run

(***************************************************************************)
(* JavaScript values.                                                      *)
(***************************************************************************)
JStr(s) == [type |-> "string", str |-> s, num |-> 0]
JNum(n) == [type |-> "number", str |-> <<>>, num |-> n]
JNaN == [type |-> "NaN", str |-> <<>>, num |-> 0]
JNull == [type |-> "null", str |-> <<>>, num |-> 0]
JUndef == [type |-> "undefined", str |-> <<>>, num |-> 0]

\* !v
Falsy(v) ==
  \/ v.type \in {"null", "undefined", "NaN"}
  \/ v.type = "string" /\ v.str = <<>>
  \/ v.type = "number" /\ v.num = 0

\* v ?? d, for a numeric v
Coalesce(v, d) == IF v.type \in {"null", "undefined"} THEN d ELSE v.num

Range(s) == {s[i] : i \in 1..Len(s)}

Max(a, b) == IF a >= b THEN a ELSE b
Min(a, b) == IF a <= b THEN a ELSE b

\* Array.prototype.slice(0, n)
Slice(s, n) == SubSeq(s, 1, Min(Len(s), n))

RECURSIVE Concat(_)
Concat(ss) == IF ss = <<>> THEN <<>> ELSE Head(ss) \o Concat(Tail(ss))

(***************************************************************************)
(* Strings.                                                                *)
(***************************************************************************)
UpperChars == <<"A", "B", "C", "D", "E", "F", "G", "H", "I", "J", "K", "L", "M",
                "N", "O", "P", "Q", "R", "S", "T", "U", "V", "W", "X", "Y", "Z">>
LowerChars == <<"a", "b", "c", "d", "e", "f", "g", "h", "i", "j", "k", "l", "m",
                "n", "o", "p", "q", "r", "s", "t", "u", "v", "w", "x", "y", "z">>

ToLowerChar(c) ==
  IF \E i \in 1..Len(UpperChars) : UpperChars[i] = c
  THEN LowerChars[CHOOSE i \in 1..Len(UpperChars) : UpperChars[i] = c]
  ELSE c

\* String.prototype.toLowerCase
toLowerCase(s) == [i \in 1..Len(s) |-> ToLowerChar(s[i])]

\* String.prototype.includes
includes(t, k) ==
  \E i \in 0..(Len(t) - Len(k)) : SubSeq(t, i + 1, i + Len(k)) = k

IsSpace(c) == c \in {" ", "\t", "\n"}

\* String.prototype.trim
trim(s) ==
  IF \A i \in 1..Len(s) : IsSpace(s[i]) THEN <<>>
  ELSE LET nb == {i \in 1..Len(s) : ~IsSpace(s[i])}
           lo == CHOOSE i \in nb : \A j \in nb : i <= j
           hi == CHOOSE i \in nb : \A j \in nb : i >= j
       IN SubSeq(s, lo, hi)

Digits == <<"0", "1", "2", "3", "4", "5", "6", "7", "8", "9">>
IsDigit(c) == \E i \in 1..Len(Digits) : Digits[i] = c
DigitVal(c) == (CHOOSE i \in 1..Len(Digits) : Digits[i] = c) - 1
AllDigits(s) == \A i \in 1..Len(s) : IsDigit(s[i])

RECURSIVE DecimalValue(_)
DecimalValue(s) ==
  IF s = <<>> THEN 0
  ELSE 10 * DecimalValue(SubSeq(s, 1, Len(s) - 1)) + DigitVal(s[Len(s)])

RECURSIVE ToDigits(_)
ToDigits(n) ==
  IF n < 10 THEN <<Digits[n + 1]>> ELSE ToDigits(n \div 10) \o <<Digits[(n % 10) + 1]>>

\* String(n) of an integer
NumberToString(n) == IF n < 0 THEN <<"-">> \o ToDigits(0 - n) ELSE ToDigits(n)

\* Number(v) of undefined, a number, or a string holding an optionally signed
\* decimal integer; any other string the model draws is not a numeric literal
Number(v) ==
  CASE v.type = "number" -> v
    [] v.type = "null" -> JNum(0)
    [] v.type = "string" /\ v.str = <<>> -> JNum(0)
    [] v.type = "string" /\ v.str # <<>> /\ AllDigits(v.str) -> JNum(DecimalValue(v.str))
    [] v.type = "string" /\ Len(v.str) > 1 /\ v.str[1] = "-" /\ AllDigits(Tail(v.str))
         -> JNum(0 - DecimalValue(Tail(v.str)))
    [] OTHER -> JNaN

\* Number.isFinite
IsFinite(v) == v.type = "number"

(***************************************************************************)
(* parseISODurationToSec: /^PT(?:(\d+)H)?(?:(\d+)M)?(?:(\d+)S)?$/          *)
(***************************************************************************)
\* the index after the longest run of digits of s that starts at i
RECURSIVE DigitsEnd(_, _)
DigitsEnd(s, i) == IF i <= Len(s) /\ IsDigit(s[i]) THEN DigitsEnd(s, i + 1) ELSE i

\* the optional group (?:(\d+)L)? tried at index i: \d+ is greedy and L is no
\* digit, so the group matches exactly when the whole run of digits is not
\* empty and L follows it; otherwise it matches empty and captures nothing
Group(s, i, letter) ==
  LET j == DigitsEnd(s, i)
  IN IF j > i /\ j <= Len(s) /\ s[j] = letter
     THEN [captured |-> TRUE, text |-> SubSeq(s, i, j - 1), next |-> j + 1]
     ELSE [captured |-> FALSE, text |-> <<>>, next |-> i]

parseISODurationToSec(iso) ==
  IF Falsy(iso) \/ iso.type # "string" THEN JNull
  ELSE LET s == iso.str
           g1 == Group(s, 3, "H")
           g2 == Group(s, g1.next, "M")
           g3 == Group(s, g2.next, "S")
           m == Len(s) >= 2 /\ s[1] = "P" /\ s[2] = "T" /\ g3.next = Len(s) + 1
           h == IF g1.captured THEN DecimalValue(g1.text) ELSE 0
           mi == IF g2.captured THEN DecimalValue(g2.text) ELSE 0
           sec == IF g3.captured THEN DecimalValue(g3.text) ELSE 0
       IN IF ~m THEN JNull ELSE JNum(h * 3600 + mi * 60 + sec)

(***************************************************************************)
(* topicFromTitle.                                                         *)
(***************************************************************************)
rules ==
  <<
    [topic |-> <<"u96D1", "u5B66">>,
     keys |-> <<<<"u96D1", "u5B66">>,
               <<"u8C46", "u77E5", "u8B58">>,
               <<"u77E5", "u3089", "u306A", "u3044">>,
               <<"u77E5", "u3063", "u3066", "u305F">>,
               <<"u610F", "u5916">>,
               <<"u4FDD", "u5B58">>>>],
    [topic |-> <<"u7B4B", "u30C8", "u30EC">>,
     keys |-> <<<<"u7B4B", "u30C8", "u30EC">>,
               <<"u8179", "u7B4B">>,
               <<"u8155", "u7ACB", "u3066">>,
               <<"u30B9", "u30AF", "u30EF", "u30C3", "u30C8">>,
               <<"u30C0", "u30A4", "u30A8", "u30C3", "u30C8">>,
               <<"u8102", "u80AA">>,
               <<"u30B9", "u30C8", "u30EC", "u30C3", "u30C1">>>>],
    [topic |-> <<"u82F1", "u8A9E">>,
     keys |-> <<<<"u82F1", "u8A9E">>,
               <<"e", "n", "g", "l", "i", "s", "h">>,
               <<"u767A", "u97F3">>,
               <<"u30D5", "u30EC", "u30FC", "u30BA">>,
               <<"t", "o", "e", "i", "c">>>>],
    [topic |-> <<"u6599", "u7406">>,
     keys |-> <<<<"u6599", "u7406">>,
               <<"u30EC", "u30B7", "u30D4">>,
               <<"u7C21", "u5358">>,
               <<"u30EC", "u30F3", "u30B8">>,
               <<"u4F5C", "u308A", "u65B9">>,
               <<"u3046", "u307E", "u3044">>>>],
    [topic |-> <<"u604B", "u611B">>,
     keys |-> <<<<"u604B", "u611B">>,
               <<"u30E2", "u30C6">>,
               <<"u5F7C", "u5973">>,
               <<"u5F7C", "u6C0F">>,
               <<"u30C7", "u30FC", "u30C8">>,
               <<"u7D50", "u5A5A">>>>],
    [topic |-> <<"u30E9", "u30A4", "u30D5", "u30CF", "u30C3", "u30AF">>,
     keys |-> <<<<"u88CF", "u6280">>,
               <<"u4FBF", "u5229">>,
               <<"u30E9", "u30A4", "u30D5", "u30CF", "u30C3", "u30AF">>,
               <<"u6642", "u77ED">>,
               <<"u7BC0", "u7D04">>,
               <<"u795E">>,
               <<"u640D">>>>],
    [topic |-> <<"u526F", "u696D">>,
     keys |-> <<<<"u526F", "u696D">>,
               <<"u7A3C", "u3050">>,
               <<"u53CE", "u76CA">>,
               <<"u30A2", "u30D5", "u30A3">>,
               <<"u4ED5", "u4E8B">>,
               <<"u5728", "u5B85">>>>],
    [topic |-> <<"u30A8", "u30F3", "u30BF", "u30E1">>,
     keys |-> <<<<"s", "h", "o", "r", "t", "s">>,
               <<"u5207", "u308A", "u629C", "u304D">>,
               <<"u30C9", "u30C3", "u30AD", "u30EA">>,
               <<"u691C", "u8A3C">>,
               <<"u3042", "u308B", "u3042", "u308B">>,
               <<"u7206", "u7B11">>>>]
  >>

Unclassified == <<"u672A", "u5206", "u985E">>

\* the labels a video can get
Vocabulary == {rules[r].topic : r \in 1..Len(rules)} \cup {Unclassified}

\* rule r has a key that the lowercased text t includes
RuleHits(r, t) ==
  \E k \in 1..Len(rules[r].keys) : includes(t, toLowerCase(rules[r].keys[k]))

\* a classifier that lets the last matching rule win
topicFromTitleLastWins(title) ==
  LET t == toLowerCase(IF Falsy(title) THEN <<>> ELSE title.str)
      hits == {r \in 1..Len(rules) : RuleHits(r, t)}
  IN IF hits = {} THEN Unclassified
     ELSE rules[CHOOSE r \in hits : \A r2 \in hits : r >= r2].topic

topicFromTitle(title) ==
  LET t == toLowerCase(IF Falsy(title) THEN <<>> ELSE title.str)
      hits == {r \in 1..Len(rules) : RuleHits(r, t)}
  IN IF hits = {} THEN Unclassified
     ELSE rules[CHOOSE r \in hits : \A r2 \in hits : r <= r2].topic

(***************************************************************************)
(* JSON.stringify and JSON.parse, at the level of the literals: a document *)
(* keeps its shape and every scalar becomes the text of its JSON literal.  *)
(* A key whose value is undefined is left out (the empty text).            *)
(***************************************************************************)
\* an encoder that escapes nothing
EscapeNothing(c) == <<c>>

EscapeChar(c) ==
  CASE c = "\"" -> <<"\\", "\"">>
    [] c = "\\" -> <<"\\", "\\">>
    [] c = "\n" -> <<"\\", "n">>
    [] c = "\t" -> <<"\\", "t">>
    [] OTHER -> <<c>>

JsonQuote(s) == <<"\"">> \o Concat([i \in 1..Len(s) |-> EscapeChar(s[i])]) \o <<"\"">>

NullText == <<"n", "u", "l", "l">>

JsonLiteral(v) ==
  CASE v.type = "string" -> JsonQuote(v.str)
    [] v.type = "number" -> NumberToString(v.num)
    [] v.type = "undefined" -> <<>>
    [] OTHER -> NullText

UnescapeChar(c) ==
  CASE c = "n" -> "\n"
    [] c = "t" -> "\t"
    [] OTHER -> c

\* the characters of the string literal lit from index i to its closing quote
RECURSIVE ScanString(_, _)
ScanString(lit, i) ==
  IF i > Len(lit) \/ lit[i] = "\"" THEN <<>>
  ELSE IF lit[i] = "\\" /\ i < Len(lit)
       THEN <<UnescapeChar(lit[i + 1])>> \o ScanString(lit, i + 2)
       ELSE <<lit[i]>> \o ScanString(lit, i + 1)

JsonValue(lit) ==
  CASE lit = <<>> -> JUndef
    [] lit # <<>> /\ lit[1] = "\"" -> JStr(ScanString(lit, 2))
    [] lit = NullText -> JNull
    [] OTHER -> Number(JStr(lit))

ItemFields == {"video_id", "url", "title", "channel_title", "views",
               "published_ago_sec", "topic"}

JSONstringify(obj) ==
  [updated_at |-> JsonLiteral(obj.updated_at),
   source |-> JsonLiteral(obj.source),
   region |-> JsonLiteral(obj.region),
   items |-> [i \in 1..Len(obj.items) |->
                [f \in ItemFields |-> JsonLiteral(obj.items[i][f])]]]

JSONparse(text) ==
  [updated_at |-> JsonValue(text.updated_at),
   source |-> JsonValue(text.source),
   region |-> JsonValue(text.region),
   items |-> [i \in 1..Len(text.items) |->
                [f \in ItemFields |-> JsonValue(text.items[i][f])]]]

(***************************************************************************)
(* Array.prototype.sort with a comparator that orders by a number: the     *)
(* element at place k is the one with k - 1 elements before it, an element *)
(* being before another when the comparator is negative, or is zero and it *)
(* came first (the sort is stable).                                        *)
(***************************************************************************)
(* cmp[i][j] is what the comparator returns for (s[i], s[j]).               *)
SortStable(s, cmp) ==
  LET n == Len(s)
      rank(i) == Cardinality({j \in 1..n :
                    \/ cmp[j][i] < 0
                    \/ cmp[j][i] = 0 /\ j < i}) + 1
  IN [k \in 1..n |-> s[CHOOSE i \in 1..n : rank(i) = k]]

\* (a, b) => (b.views ?? 0) - (a.views ?? 0)
CmpViewsDesc(a, b) == Coalesce(b.views, 0) - Coalesce(a.views, 0)

ByViewsDesc(s) == [i \in 1..Len(s) |-> [j \in 1..Len(s) |-> CmpViewsDesc(s[i], s[j])]]

SortByViewsDesc(s) == SortStable(s, ByViewsDesc(s))

(***************************************************************************)
(* The builder: parseArgs.                                                 *)
(***************************************************************************)
DefaultMaxItems == 50
DefaultLookbackHours == 36
DefaultPerQuery == 25
DefaultDelayMs == 150

FlagMax == <<"-", "-", "m", "a", "x">>
FlagHours == <<"-", "-", "h", "o", "u", "r", "s">>
FlagPerQuery == <<"-", "-", "p", "e", "r", "Q", "u", "e", "r", "y">>
FlagDelayMs == <<"-", "-", "d", "e", "l", "a", "y", "M", "s">>
FlagSelftest == <<"-", "-", "s", "e", "l", "f", "t", "e", "s", "t">>
FlagDebug == <<"-", "-", "d", "e", "b", "u", "g">>

\* args[i], undefined past the end
ArgAt(args, i) == IF i <= Len(args) THEN JStr(args[i]) ELSE JUndef

RECURSIVE ScanArgs(_, _, _)
ScanArgs(args, i, o) ==
  IF i > Len(args) THEN o
  ELSE CASE args[i] = FlagMax ->
              ScanArgs(args, i + 2, [o EXCEPT !.maxItems = Number(ArgAt(args, i + 1))])
         [] args[i] = FlagHours ->
              ScanArgs(args, i + 2, [o EXCEPT !.lookbackHours = Number(ArgAt(args, i + 1))])
         [] args[i] = FlagPerQuery ->
              ScanArgs(args, i + 2, [o EXCEPT !.perQuery = Number(ArgAt(args, i + 1))])
         [] args[i] = FlagDelayMs ->
              ScanArgs(args, i + 2, [o EXCEPT !.delayMs = Number(ArgAt(args, i + 1))])
         [] args[i] = FlagSelftest ->
              ScanArgs(args, i + 1, [o EXCEPT !.selftest = TRUE])
         [] args[i] = FlagDebug ->
              ScanArgs(args, i + 1, [o EXCEPT !.debug = TRUE])
         [] OTHER -> ScanArgs(args, i + 1, o)

parseArgs(args) ==
  LET o == ScanArgs(args, 1,
             [maxItems |-> JNum(DefaultMaxItems), lookbackHours |-> JNum(DefaultLookbackHours),
              perQuery |-> JNum(DefaultPerQuery), delayMs |-> JNum(DefaultDelayMs),
              selftest |-> FALSE, debug |-> FALSE])
  IN [maxItems |-> IF ~IsFinite(o.maxItems) \/ o.maxItems.num <= 0
                   THEN DefaultMaxItems ELSE o.maxItems.num,
      lookbackHours |-> IF ~IsFinite(o.lookbackHours) \/ o.lookbackHours.num <= 0
                        THEN DefaultLookbackHours ELSE o.lookbackHours.num,
      perQuery |-> IF ~IsFinite(o.perQuery) \/ o.perQuery.num <= 0
                   THEN DefaultPerQuery ELSE o.perQuery.num,
      delayMs |-> IF ~IsFinite(o.delayMs) \/ o.delayMs.num < 0
                  THEN DefaultDelayMs ELSE o.delayMs.num,
      selftest |-> o.selftest,
      debug |-> o.debug]

\* the command lines the model runs the builder with
ArgvChoices ==
  {<<>>, <<FlagSelftest>>, <<FlagMax>>, <<FlagMax, <<"x">>>>, <<FlagMax, <<"-", "1">>>>,
   <<FlagHours, <<"0">>, FlagPerQuery, <<"x">>, FlagDelayMs, <<"-", "1">>>>}
  \cup {<<FlagMax, ToDigits(n)>> : n \in 0..MaxMaxItems}
  \cup {<<FlagMax, ToDigits(n), FlagSelftest>> : n \in 1..MaxMaxItems}

(***************************************************************************)
(* The builder: the platform's answers.                                    *)
(***************************************************************************)
queries ==
  <<<<"s", "h", "o", "r", "t", "s">>,
     <<"u5207", "u308A", "u629C", "u304D">>,
     <<"u96D1", "u5B66">>,
     <<"u30E9", "u30A4", "u30D5", "u30CF", "u30C3", "u30AF">>,
     <<"u7B4B", "u30C8", "u30EC">>,
     <<"u30C0", "u30A4", "u30A8", "u30C3", "u30C8">>,
     <<"u6599", "u7406">>,
     <<"u82F1", "u8A9E">>,
     <<"u604B", "u611B">>,
     <<"u691C", "u8A3C">>,
     <<"u3042", "u308B", "u3042", "u308B">>>>

IdChars == <<"a", "b", "c", "d", "e", "f">>
Ids == {<<IdChars[i]>> : i \in 1..NumIds}

\* one entry of a search response: it.id.videoId is an id, or is missing
SearchResults == {[videoId |-> JStr(id)] : id \in Ids} \cup {[videoId |-> JUndef]}

Unparseable == [parses |-> FALSE, hasItems |-> FALSE, items |-> <<>>]

\* no body held: the local of searchIds or getVideoDetails is out of scope
NoData == [parses |-> TRUE, hasItems |-> FALSE, items |-> <<>>]

SearchBodies ==
  {[parses |-> TRUE, hasItems |-> TRUE, items |-> s] :
     s \in {<<>>} \cup {<<x>> : x \in SearchResults}
           \cup {<<x, y>> : x \in SearchResults, y \in SearchResults}}
  \cup {[parses |-> TRUE, hasItems |-> FALSE, items |-> <<>>]}

TitleShorts == <<"S", "h", "o", "r", "t", "s">>
TitlePlain == <<"a", "\"", "b">>
ChannelEnglish == <<"E", "n", "g", "l", "i", "s", "h">>

Video(id, title, channelTitle, publishedAt, viewCount, duration) ==
  [id |-> id, title |-> title, channelTitle |-> channelTitle,
   publishedAt |-> publishedAt, viewCount |-> viewCount, duration |-> duration]

\* what videos.list can answer for one id: snippet, statistics and
\* contentDetails flattened; publishedAt is the instant Date.parse gives
VideoShapes(id) ==
  {Video(JStr(id), JStr(TitleShorts), JStr(ChannelEnglish), JNum(NowMs - 90500),
         JStr(<<"7">>), JStr(<<"P", "T", "3", "0", "S">>)),
   Video(JStr(id), JStr(TitlePlain), JUndef, JNum(NowMs + 5),
         JUndef, JStr(<<"P", "T", "1", "M">>)),
   Video(JStr(id), JStr(TitleShorts), JUndef, JUndef,
         JStr(<<"1", "2">>), JStr(<<"P", "T", "1", "M", "1", "S">>)),
   Video(JStr(id), JStr(TitlePlain), JUndef, JUndef,
         JStr(<<"9">>), JStr(<<"P", "1", "D">>)),
   Video(JStr(id), JStr(TitlePlain), JUndef, JUndef,
         JStr(<<"9">>), JStr(<<"P", "T">>)),
   Video(JStr(id), JStr(TitlePlain), JUndef, JUndef,
         JStr(<<"x">>), JStr(<<"P", "T", "3", "0", "S">>)),
   Video(JStr(id), JUndef, JStr(ChannelEnglish), JUndef,
         JStr(<<"3">>), JStr(<<"P", "T", "3", "0", "S">>)),
   Video(JUndef, JStr(TitlePlain), JUndef, JUndef,
         JStr(<<"3">>), JStr(<<"P", "T", "3", "0", "S">>))}

\* the items of a videos.list answer for the ids g: in the order asked, an id
\* the platform no longer has is left out
RECURSIVE DetailItems(_)
DetailItems(g) ==
  IF g = <<>> THEN {<<>>}
  ELSE {pre \o rest : pre \in {<<>>} \cup {<<v>> : v \in VideoShapes(Head(g))},
                      rest \in DetailItems(Tail(g))}

DetailBodies(g) ==
  {[parses |-> TRUE, hasItems |-> TRUE, items |-> s] : s \in DetailItems(g)}
  \cup {[parses |-> TRUE, hasItems |-> FALSE, items |-> <<>>]}

HttpStatuses == {200, 400, 403, 404, 429, 500, 501, 503}

(***************************************************************************)
(* The builder: fetchJson, as searchIds and getVideoDetails call it.       *)
(***************************************************************************)
Retries == 3
FetchDelayMs == 500
RetryStatuses == {403, 429, 500, 502, 503, 504}

\* res.ok
IsOk(status) == status \in 200..299

\* a retry branch that forgets the list of statuses
ShouldRetryAnyStatus(status, attempt) == attempt < Retries

\* a retry branch that forgets the last attempt
ShouldRetryAnyAttempt(status, attempt) == status \in RetryStatuses

\* the guard of the retry branch
ShouldRetry(status, attempt) == status \in RetryStatuses /\ attempt < Retries

\* the argument of sleep in the retry branch
Backoff(attempt) == FetchDelayMs * attempt

\* the for loop goes on
LoopGoesOn(attempt) == attempt <= Retries

NewCall(kind) ==
  [kind |-> kind, attempt |-> 1, requests |-> 0, sleeps |-> <<>>,
   lastStatus |-> 0, result |-> "pending"]

NoCall == [NewCall("none") EXCEPT !.result = "none"]

\* the bodies the pending request can be answered with
Bodies ==
  IF call.kind = "searchIds" THEN SearchBodies ELSE DetailBodies(groups[gi])

Responses ==
  {[status |-> s, body |-> b] :
     s \in {x \in HttpStatuses : IsOk(x)}, b \in Bodies \cup {Unparseable}}
  \cup {[status |-> s, body |-> Unparseable] : s \in {x \in HttpStatuses : ~IsOk(x)}}

\* process.exit(code), by die or by the catch of main
Exit(code, why) ==
  /\ pc' = "exit"
  /\ exitCode' = code
  /\ fatal' = why

\* one pass of the loop of fetchJson: the request, its response, and the
\* sleep before the next pass
fetchJson(res) ==
  LET c == [call EXCEPT !.requests = @ + 1, !.lastStatus = res.status]
  IN IF IsOk(res.status)
     THEN IF res.body.parses
          THEN /\ call' = [c EXCEPT !.result = "returned"]
               /\ data' = res.body
               /\ pc' = call.kind
               /\ UNCHANGED <<exitCode, fatal>>
          ELSE /\ call' = [c EXCEPT !.result = "thrown"]
               /\ Exit(1, "json")
               /\ UNCHANGED data
     ELSE IF ShouldRetry(res.status, c.attempt)
          THEN LET c2 == [c EXCEPT !.sleeps = Append(@, Backoff(c.attempt)),
                                   !.attempt = @ + 1]
               IN IF LoopGoesOn(c2.attempt)
                  THEN /\ call' = c2
                       /\ UNCHANGED <<data, pc, exitCode, fatal>>
                  ELSE /\ call' = [c2 EXCEPT !.result = "thrown"]
                       /\ Exit(1, "http")
                       /\ UNCHANGED data
          ELSE /\ call' = [c EXCEPT !.result = "thrown"]
               /\ Exit(1, "http")
               /\ UNCHANGED data

FetchJson ==
  /\ pc = "fetchJson"
  /\ \E res \in Responses : fetchJson(res)
  /\ UNCHANGED <<env, opt, qi, idSet, seen, groups, gi, out, disk, writes>>
  /\ UNCHANGED <<dvars, tvars, rvars>>

(***************************************************************************)
(* The builder: main.                                                      *)
(***************************************************************************)
ChunkSize == 50

RECURSIVE chunk(_, _)
chunk(arr, size) ==
  IF arr = <<>> THEN <<>>
  ELSE <<SubSeq(arr, 1, Min(Len(arr), size))>>
       \o chunk(SubSeq(arr, Min(Len(arr), size) + 1, Len(arr)), size)

\* an array push in place of Set.prototype.add
SetAddPush(set, id) == Append(set, id)

\* Set.prototype.add
SetAdd(set, id) == IF id \in Range(set) THEN set ELSE Append(set, id)

RECURSIVE AddAll(_, _)
AddAll(set, ids) ==
  IF ids = <<>> THEN set ELSE AddAll(SetAdd(set, Head(ids)), Tail(ids))

HasVideoId(it) == ~Falsy(it.videoId)

\* the ids searchIds returns for the body d
FoundIds(d) ==
  LET hits == SelectSeq(IF d.hasItems THEN d.items ELSE <<>>, HasVideoId)
  IN [i \in 1..Len(hits) |-> hits[i].videoId.str]

\* main up to the first searchIds
MainStart ==
  /\ pc = "main"
  /\ IF ~env.apiKey
     THEN /\ Exit(1, "credential")
          /\ UNCHANGED <<opt, qi, idSet, call>>
     ELSE /\ \E args \in ArgvChoices : opt' = parseArgs(args)
          /\ idSet' = <<>>
          /\ qi' = 1
          /\ call' = NewCall("searchIds")
          /\ pc' = "fetchJson"
          /\ UNCHANGED <<exitCode, fatal>>
  /\ UNCHANGED <<env, seen, data, groups, gi, out, disk, writes>>
  /\ UNCHANGED <<dvars, tvars, rvars>>

\* searchIds after fetchJson, the rest of the pass of the loop over queries,
\* and, after the last query, main up to the first request of getVideoDetails
SearchIdsReturn ==
  /\ pc = "searchIds"
  /\ LET ids == FoundIds(data)
         idsAll == AddAll(idSet, ids)
     IN /\ idSet' = idsAll
        /\ seen' = seen \cup Range(ids)
        /\ IF qi < Len(queries)
           THEN /\ qi' = qi + 1
                /\ call' = NewCall("searchIds")
                /\ pc' = "fetchJson"
                /\ UNCHANGED <<groups, gi, out, exitCode, fatal>>
           ELSE IF Len(idsAll) = 0
                THEN /\ Exit(1, "novideos")
                     /\ call' = NoCall
                     /\ UNCHANGED <<qi, groups, gi, out>>
                ELSE /\ groups' = chunk(idsAll, ChunkSize)
                     /\ gi' = 1
                     /\ out' = <<>>
                     /\ call' = NewCall("getVideoDetails")
                     /\ pc' = "fetchJson"
                     /\ UNCHANGED <<qi, exitCode, fatal>>
  /\ data' = NoData
  /\ UNCHANGED <<env, opt, disk, writes>>
  /\ UNCHANGED <<dvars, tvars, rvars>>

\* getVideoDetails after fetchJson, and the next chunk
GetVideoDetailsReturn ==
  /\ pc = "getVideoDetails"
  /\ out' = out \o (IF data.hasItems THEN data.items ELSE <<>>)
  /\ IF gi < Len(groups)
     THEN /\ gi' = gi + 1
          /\ call' = NewCall("getVideoDetails")
          /\ pc' = "fetchJson"
     ELSE /\ pc' = "details"
          /\ call' = NoCall
          /\ UNCHANGED gi
  /\ data' = NoData
  /\ UNCHANGED <<env, opt, qi, idSet, seen, groups, disk, writes, exitCode, fatal>>
  /\ UNCHANGED <<dvars, tvars, rvars>>

UrlPrefix ==
  <<"h", "t", "t", "p", "s", ":", "/", "/", "w", "w", "w", ".", "y", "o", "u", "t",
    "u", "b", "e", ".", "c", "o", "m", "/", "s", "h", "o", "r", "t", "s", "/">>

\* `${v}` of a string or undefined
TemplateText(v) ==
  IF v.type = "string" THEN v.str ELSE <<"u", "n", "d", "e", "f", "i", "n", "e", "d">>

\* v || "" of a string or undefined
OrEmpty(v) == IF Falsy(v) THEN JStr(<<>>) ELSE v

ShortsMaxSec == 60

\* Number(st.viewCount || 0)
ViewsOf(v) == Number(IF Falsy(v.viewCount) THEN JNum(0) ELSE v.viewCount)

\* the video gets past the three `continue`s of the loop over details
IsCandidate(v) ==
  LET sec == parseISODurationToSec(v.duration)
  IN /\ sec.type # "null"
     /\ ~(sec.num > ShortsMaxSec)
     /\ IsFinite(ViewsOf(v))

\* Math.max(0, Math.floor((nowMs - publishedAt) / 1000)), or null
AgoSec(publishedAt) ==
  IF Falsy(publishedAt) THEN JNull
  ELSE JNum(Max(0, (NowMs - publishedAt.num) \div 1000))

Candidate(v) ==
  [video_id |-> v.id,
   url |-> JStr(UrlPrefix \o TemplateText(v.id)),
   title |-> OrEmpty(v.title),
   channel_title |-> OrEmpty(v.channelTitle),
   views |-> ViewsOf(v),
   published_ago_sec |-> AgoSec(v.publishedAt),
   topic |-> JStr(topicFromTitle(OrEmpty(v.title)))]

\* the loop over details
Candidates(details) ==
  LET kept == SelectSeq(details, IsCandidate)
  IN [i \in 1..Len(kept) |-> Candidate(kept[i])]

\* jstNowString() of the run, and of the run that wrote the previous file
StampNow == <<"2", "0", "2", "6", "-", "1", "1", "-", "0", "5", " ", "0", "9", ":", "0", "0", " ", "J", "S", "T">>
StampBefore == <<"2", "0", "2", "6", "-", "1", "1", "-", "0", "4", " ", "0", "9", ":", "0", "0", " ", "J", "S", "T">>
SourceName == <<"y", "o", "u", "t", "u", "b", "e", "-", "d", "a", "t", "a", "-", "a", "p", "i">>
RegionName == <<"J", "P">>

buildLatestJson(items, stamp) ==
  [updated_at |-> JStr(stamp), source |-> JStr(SourceName), region |-> JStr(RegionName),
   items |-> items]

\* the check of one item, "none" for no error
ItemError(it) ==
  IF Falsy(it.video_id) \/ Falsy(it.url) \/ Falsy(it.title)
  THEN "item missing required fields"
  ELSE IF it.views.type \notin {"number", "NaN"} THEN "views must be number"
  ELSE "none"

\* "none" for null
validateLatestJson(obj) ==
  IF Falsy(obj.updated_at) \/ Falsy(obj.source) \/ Falsy(obj.region)
  THEN "missing meta fields"
  ELSE LET bad == {i \in 1..Len(obj.items) : ItemError(obj.items[i]) # "none"}
       IN IF bad = {} THEN "none"
          ELSE ItemError(obj.items[CHOOSE i \in bad : \A j \in bad : i <= j])

\* candidates.sort(...).slice(0, opt.maxItems)
Top(details, maxItems) == Slice(SortByViewsDesc(Candidates(details)), maxItems)

\* the file the previous run left
PreviousFile == JSONstringify(buildLatestJson(<<>>, StampBefore))

\* main from the details to the end: filter, sort, cut, validate, write, selftest
MainFinish ==
  /\ pc = "details"
  /\ LET top == Top(out, opt.maxItems)
         payload == buildLatestJson(top, StampNow)
         err == validateLatestJson(payload)
     IN IF err # "none"
        THEN /\ Exit(1, "validation")
             /\ UNCHANGED <<disk, writes>>
        ELSE /\ disk' = JSONstringify(payload)
             /\ writes' = writes + 1
             /\ IF opt.selftest /\ Len(top) = 0
                THEN Exit(1, "selftest")
                ELSE Exit(0, "none")
  /\ UNCHANGED <<env, opt, qi, idSet, seen, call, data, groups, gi, out>>
  /\ UNCHANGED <<dvars, tvars, rvars>>

BuilderInit ==
  /\ pc = "main"
  /\ env \in {[apiKey |-> TRUE], [apiKey |-> FALSE]}
  /\ opt = parseArgs(<<>>)
  /\ qi = 0
  /\ idSet = <<>>
  /\ seen = {}
  /\ call = NoCall
  /\ data = NoData
  /\ groups = <<>>
  /\ gi = 0
  /\ out = <<>>
  /\ writes = 0
  /\ exitCode = -1
  /\ fatal = "none"

\* no builder runs
BuilderIdle ==
  /\ pc = "idle"
  /\ env = [apiKey |-> TRUE]
  /\ opt = parseArgs(<<>>)
  /\ qi = 0
  /\ idSet = <<>>
  /\ seen = {}
  /\ call = NoCall
  /\ data = NoData
  /\ groups = <<>>
  /\ gi = 0
  /\ out = <<>>
  /\ writes = 0
  /\ exitCode = -1
  /\ fatal = "none"

(***************************************************************************)
(* One duration through parseISODurationToSec and the filter of main.      *)
(***************************************************************************)
Part(text, letter) == IF text = <<>> THEN <<>> ELSE text \o <<letter>>

\* the text "PT#H#M#S" of the given digit texts, an empty text leaving its part out
FormatHMS(h, m, s) == <<"P", "T">> \o Part(h, "H") \o Part(m, "M") \o Part(s, "S")

ComponentTexts ==
  {<<>>, <<"5", "9">>, <<"1", "2", "0">>}
  \cup {ToDigits(n) : n \in 0..MaxComponent}
  \cup {<<"0">> \o ToDigits(n) : n \in 0..MaxComponent}

GarbageChars == {"P", "T", "H", "M", "S", "D", "1", " "}

RECURSIVE StringsUpTo(_, _)
StringsUpTo(S, n) ==
  IF n = 0 THEN {<<>>}
  ELSE LET shorter == StringsUpTo(S, n - 1)
       IN shorter \cup {Append(s, x) : s \in {u \in shorter : Len(u) = n - 1}, x \in S}

DurationInputs ==
  {JUndef, JNull, JNum(0), JNum(90)}
  \cup {JStr(FormatHMS(h, m, s)) : h \in ComponentTexts, m \in ComponentTexts, s \in ComponentTexts}
  \cup {JStr(s) : s \in StringsUpTo(GarbageChars, MaxGarbageLen)}
  \cup {JStr(<<"P", "T", "1", "S", "1", "M">>), JStr(<<"P", "T", "1", "M", "1", "H">>),
        JStr(<<"P", "1", "D", "T", "1", "H">>), JStr(<<"P", "T", "1", ".", "5", "S">>),
        JStr(<<"p", "t", "1", "s">>), JStr(<<"P", "T", "1", "H", "1", "H">>),
        JStr(<<"P", "T", "-", "1", "S">>), JStr(<<"P", "T", "1", "S", "\n">>),
        JStr(<<"P", "T", "1", "H", "M">>), JStr(<<"x", "P", "T", "1", "S">>)}

DurationInit ==
  /\ cdDuration \in DurationInputs
  /\ durationSec = JUndef
  /\ verdict = "input"

DurationIdle ==
  /\ cdDuration = JUndef
  /\ durationSec = JUndef
  /\ verdict = "idle"

\* const durationSec = parseISODurationToSec(cd.duration)
ParseDuration ==
  /\ verdict = "input"
  /\ durationSec' = parseISODurationToSec(cdDuration)
  /\ verdict' = "parsed"
  /\ UNCHANGED <<cdDuration, bvars, disk, tvars, rvars>>

\* the two `continue`s on durationSec
FilterDuration ==
  /\ verdict = "parsed"
  /\ verdict' = IF durationSec.type = "null" THEN "skipped"
                ELSE IF durationSec.num > ShortsMaxSec THEN "skipped"
                ELSE "kept"
  /\ UNCHANGED <<cdDuration, durationSec, bvars, disk, tvars, rvars>>

(***************************************************************************)
(* One video through the classifier, as main calls it.                     *)
(***************************************************************************)
\* the first and the last key of every rule, keys in capitals, and filler
Fragments ==
  {rules[r].keys[1] : r \in 1..Len(rules)}
  \cup {rules[r].keys[Len(rules[r].keys)] : r \in 1..Len(rules)}
  \cup {<<"E", "N", "G", "L", "I", "S", "H">>, <<"T", "o", "e", "i", "c">>,
        <<"S", "h", "o", "r", "t">>, <<"x">>, <<"u96D1">>}

RECURSIVE Joined(_)
Joined(n) ==
  IF n = 0 THEN {<<>>}
  ELSE LET shorter == Joined(n - 1)
       IN shorter \cup {u \o f : u \in shorter, f \in Fragments}

ChannelNames == {<<>>, <<"x">>, ChannelEnglish, rules[1].keys[1]}

TopicInit ==
  /\ video \in {[title |-> JStr(u), channel_title |-> JStr(c)] :
                  u \in Joined(MaxFragments), c \in ChannelNames}
  /\ topic = <<>>

TopicIdle ==
  /\ video = [title |-> JStr(<<>>), channel_title |-> JStr(<<>>)]
  /\ topic = <<>>

\* topic: topicFromTitle(title)
Classify ==
  /\ topic = <<>>
  /\ topic' = topicFromTitle(video.title)
  /\ UNCHANGED <<video, bvars, disk, dvars, rvars>>

(***************************************************************************)
(* The page (assets/app.js): the feeds it can be given.                    *)
(***************************************************************************)
DefaultLimit == 20
DebounceMs == 120
AgeMissing == 2000000000   \* 9e18: above every age

\* a feed item at place i with the given view count
ViewsItem(i, views) ==
  [video_id |-> JStr(<<IdChars[i]>>),
   url |-> JStr(UrlPrefix \o <<IdChars[i]>>),
   title |-> JStr(<<"t", IdChars[i]>>),
   channel_title |-> JStr(<<"c">>),
   views |-> views,
   published_ago_sec |-> IF i % 2 = 0 THEN JNull ELSE JNum(4000 - 600 * i),
   topic |-> JStr(Unclassified)]

ViewValues == {JNull, JNum(0), JNum(50)}

\* views [100, 500, 300, null, 50]
ScenarioViews == <<JNum(100), JNum(500), JNum(300), JNull, JNum(50)>>

ViewsFeed(vs) ==
  [updated_at |-> JStr(StampNow), source |-> JStr(<<"d", "u", "m", "m", "y">>),
   region |-> JStr(RegionName), items |-> [i \in 1..Len(vs) |-> ViewsItem(i, vs[i])]]

\* feeds of any origin, drawn for their view counts
ViewsFeeds ==
  {ViewsFeed(vs) : vs \in StringsUpTo(ViewValues, MaxSortItems) \cup {ScenarioViews}}

TitleEnglish == <<"E", "n", "g", "l", "i", "s", "h">>

\* what videos.list can answer for the video at place i, drawn for its texts
TextVideos(i) ==
  {Video(JStr(<<IdChars[i]>>), JStr(TitleShorts), JStr(ChannelEnglish), JUndef,
         JStr(ToDigits(9 - i)), JStr(<<"P", "T", "3", "0", "S">>)),
   Video(JStr(<<IdChars[i]>>), JStr(TitlePlain), JUndef, JNum(NowMs - 1000 * i),
         JStr(ToDigits(9 - i)), JStr(<<"P", "T", "3", "0", "S">>)),
   Video(JStr(<<IdChars[i]>>), JStr(TitleEnglish), JStr(TitlePlain), JUndef,
         JStr(ToDigits(9 - i)), JStr(<<"P", "T", "3", "0", "S">>)),
   Video(JStr(<<IdChars[i]>>), JStr(<<"b">>), JStr(TitleShorts), JUndef,
         JStr(ToDigits(9 - i)), JStr(<<"P", "T", "3", "0", "S">>))}

RECURSIVE TextDetails(_)
TextDetails(n) ==
  IF n = 0 THEN {<<>>}
  ELSE LET shorter == TextDetails(n - 1)
       IN shorter \cup {Append(s, v) : s \in {u \in shorter : Len(u) = n - 1}, v \in TextVideos(n)}

\* feeds the builder writes, drawn for their texts
TextFeeds ==
  {buildLatestJson(Top(details, DefaultMaxItems), StampNow) : details \in TextDetails(MaxTextItems)}

\* the feeds of the page with the reload button
PageFeeds ==
  {ViewsFeed(<<JNum(50), JNull, JNum(100)>>),
   buildLatestJson(Top(<<CHOOSE v \in TextVideos(1) : v.title = JStr(TitleShorts),
                         CHOOSE v \in TextVideos(2) : v.title = JStr(TitlePlain)>>,
                       DefaultMaxItems), StampNow)}

LimitValues == {<<>>, <<"1">>, ToDigits(MaxLimit)}
SortValues == {"views_desc", "age_asc"}
QueryChoices ==
  {<<>>, <<"b">>, <<"B", " ">>}

(***************************************************************************)
(* The page: render.                                                       *)
(***************************************************************************)
\* (a, b) => (a.published_ago_sec ?? 9e18) - (b.published_ago_sec ?? 9e18)
CmpAgeAsc(a, b) ==
  Coalesce(a.published_ago_sec, AgeMissing) - Coalesce(b.published_ago_sec, AgeMissing)

ByAgeAsc(s) == [i \in 1..Len(s) |-> [j \in 1..Len(s) |-> CmpAgeAsc(s[i], s[j])]]

\* the predicate of items.filter
Matches(it, q) ==
  \/ includes(toLowerCase(OrEmpty(it.title).str), q)
  \/ includes(toLowerCase(OrEmpty(it.channel_title).str), q)
  \/ includes(toLowerCase(OrEmpty(it.topic).str), q)

\* Number($("#limitSelect").value || 20)
LimitOf(value) == Number(IF value = <<>> THEN JNum(DefaultLimit) ELSE JStr(value)).num

\* what render shows of the document doc under the given control values
RenderView(doc, limitValue, sortValue, qValue) ==
  LET limit == LimitOf(limitValue)
      q == toLowerCase(trim(qValue))
      Test(it) == Matches(it, q)
      items == IF q # <<>> THEN SelectSeq(doc.items, Test) ELSE doc.items
      sorted == IF sortValue = "age_asc" THEN SortStable(items, ByAgeAsc(items))
                ELSE SortStable(items, ByViewsDesc(items))
      shown == Slice(sorted, limit)
  IN [rendered |-> TRUE, shown |-> shown, matched |-> Len(sorted),
      total |-> Len(doc.items), q |-> qValue, limit |-> limitValue, sort |-> sortValue]

\* a render that sorts RAW.items itself, not a copy
RawSortedInPlace(raw, sortValue) ==
  [raw EXCEPT !.doc.items = IF sortValue = "age_asc" THEN SortStable(@, ByAgeAsc(@))
                            ELSE SortStable(@, ByViewsDesc(@))]

\* RAW after render: let items = [...RAW.items] copies, RAW is not written
RawAfterRender(raw, sortValue) == raw

NotRendered ==
  [rendered |-> FALSE, shown |-> <<>>, matched |-> 0, total |-> 0,
   q |-> <<>>, limit |-> <<>>, sort |-> "views_desc"]

RawNull == [set |-> FALSE, doc |-> buildLatestJson(<<>>, <<>>)]

\* render() with the controls as they will be
render(limitValue, sortValue, qValue) ==
  IF ~RAW.set
  THEN UNCHANGED <<RAW, view>>
  ELSE /\ view' = RenderView(RAW.doc, limitValue, sortValue, qValue)
       /\ RAW' = RawAfterRender(RAW, sortValue)

(***************************************************************************)
(* The page: loadLatest and the handlers.                                  *)
(***************************************************************************)
\* what a fetch of ./latest.json issued now resolves to
FetchOutcomes == {[ok |-> TRUE, text |-> disk], [ok |-> FALSE, text |-> PreviousFile]}

\* loadLatest from the resolution of its fetch: RAW, then render
LoadLatestResolves ==
  /\ \E r \in BagToSet(inflight) :
       /\ inflight' = inflight (-) SetToBag({r})
       /\ IF ~r.ok
          THEN /\ failed' = TRUE
               /\ UNCHANGED <<RAW, view>>
          ELSE /\ RAW' = RawAfterRender([set |-> TRUE, doc |-> JSONparse(r.text)], sortSelect)
               /\ view' = RenderView(JSONparse(r.text), limitSelect, sortSelect, qInput)
               /\ UNCHANGED failed
  /\ UNCHANGED <<newest, limitSelect, sortSelect, qInput, timers, winT>>
  /\ UNCHANGED <<left, sinceInput>>
  /\ UNCHANGED <<bvars, disk, dvars, tvars>>

\* #btnReload click: loadLatest up to its fetch
ReloadClick ==
  /\ BagCardinality(inflight) < MaxInflight
  /\ \E r \in FetchOutcomes : inflight' = inflight (+) SetToBag({r})
  /\ UNCHANGED <<newest, RAW, limitSelect, sortSelect, qInput, timers, winT, view, failed>>
  /\ UNCHANGED <<left, sinceInput>>
  /\ UNCHANGED <<bvars, disk, dvars, tvars>>

\* #limitSelect change
LimitChange ==
  /\ \E v \in LimitValues \ {limitSelect} :
       /\ limitSelect' = v
       /\ render(v, sortSelect, qInput)
  /\ UNCHANGED <<newest, inflight, sortSelect, qInput, timers, winT, failed>>
  /\ UNCHANGED <<left, sinceInput>>
  /\ UNCHANGED <<bvars, disk, dvars, tvars>>

\* #sortSelect change
SortChange ==
  /\ \E v \in SortValues \ {sortSelect} :
       /\ sortSelect' = v
       /\ render(limitSelect, v, qInput)
  /\ UNCHANGED <<newest, inflight, limitSelect, qInput, timers, winT, failed>>
  /\ UNCHANGED <<left, sinceInput>>
  /\ UNCHANGED <<bvars, disk, dvars, tvars>>

\* an id no pending timer has and window.__t does not hold
FreshTimer == CHOOSE id \in 1..(Cardinality(timers) + 2) : id \notin timers \cup {winT}

\* a handler that sets a timer and clears none
clearNothing(pending, id) == pending

\* clearTimeout(id): the timer id is pending no more; any other id is ignored
clearTimeout(pending, id) == pending \ {id}

\* the ms left of the timers in pending; a timer just set has its whole delay
Remaining(pending, delay) ==
  [id \in pending |-> IF id \in DOMAIN left THEN left[id] ELSE delay]

\* #qInput input: clearTimeout(window.__t); window.__t = setTimeout(render, 120)
QInput ==
  /\ \E text \in QueryChoices \ {qInput} : qInput' = text
  /\ timers' = clearTimeout(timers, winT) \cup {FreshTimer}
  /\ winT' = FreshTimer
  /\ left' = Remaining(timers', DebounceMs)
  /\ sinceInput' = 0
  /\ UNCHANGED <<newest, RAW, inflight, limitSelect, sortSelect, view, failed>>
  /\ UNCHANGED <<bvars, disk, dvars, tvars>>

\* a pending timer whose delay has passed fires: render
TimerFires ==
  /\ \E id \in timers :
       /\ left[id] = 0
       /\ timers' = timers \ {id}
  /\ left' = Remaining(timers', DebounceMs)
  /\ render(limitSelect, sortSelect, qInput)
  /\ UNCHANGED <<newest, inflight, limitSelect, sortSelect, qInput, winT, failed>>
  /\ UNCHANGED sinceInput
  /\ UNCHANGED <<bvars, disk, dvars, tvars>>

\* ms pass with no event: the timers run down, none fires yet
Elapse(ms) ==
  /\ \/ sinceInput < DebounceMs
     \/ \E id \in timers : left[id] > 0
  /\ left' = [id \in timers |-> Max(0, left[id] - ms)]
  /\ sinceInput' = Min(DebounceMs, sinceInput + ms)

\* one tick of the clock
Tick ==
  /\ Elapse(TickMs)
  /\ UNCHANGED <<newest, RAW, inflight, limitSelect, sortSelect, qInput, timers, winT,
                 view, failed>>
  /\ UNCHANGED <<bvars, disk, dvars, tvars>>

\* the whole delay of setTimeout passes
DelayPasses ==
  /\ Elapse(DebounceMs)
  /\ UNCHANGED <<newest, RAW, inflight, limitSelect, sortSelect, qInput, timers, winT,
                 view, failed>>
  /\ UNCHANGED <<bvars, disk, dvars, tvars>>

\* a run of the builder ends and replaces latest.json
BuilderWrites ==
  /\ disk = PreviousFile
  /\ disk' = JSONstringify(newest)
  /\ disk' # disk
  /\ UNCHANGED <<bvars, dvars, tvars, rvars>>

\* the script has run: loadLatest is at its fetch
PageInit(feeds, files) ==
  /\ newest \in feeds
  /\ disk \in files
  /\ RAW = RawNull
  /\ inflight \in {SetToBag({r}) : r \in FetchOutcomes}
  /\ limitSelect = <<>>
  /\ sortSelect = "views_desc"
  /\ qInput = <<>>
  /\ timers = {}
  /\ winT = 0
  /\ view = NotRendered
  /\ failed = FALSE
  /\ left = [id \in {} |-> 0]
  /\ sinceInput = DebounceMs

PageIdle ==
  /\ newest = buildLatestJson(<<>>, StampBefore)
  /\ RAW = RawNull
  /\ inflight = EmptyBag
  /\ limitSelect = <<>>
  /\ sortSelect = "views_desc"
  /\ qInput = <<>>
  /\ timers = {}
  /\ winT = 0
  /\ view = NotRendered
  /\ failed = FALSE
  /\ left = [id \in {} |-> 0]
  /\ sinceInput = DebounceMs

(***************************************************************************)
(* The specifications.                                                     *)
(***************************************************************************)
vars == <<bvars, disk, dvars, tvars, rvars>>

\* one run of the builder
Init == BuilderInit /\ disk = PreviousFile /\ DurationIdle /\ TopicIdle /\ PageIdle

Next == MainStart \/ FetchJson \/ SearchIdsReturn \/ GetVideoDetailsReturn \/ MainFinish

Spec == Init /\ [][Next]_vars

\* one duration
DurationNext == ParseDuration \/ FilterDuration

InitDuration ==
  BuilderIdle /\ disk = PreviousFile /\ DurationInit /\ TopicIdle /\ PageIdle

SpecDuration == InitDuration /\ [][DurationNext]_vars

\* one classification
TopicNext == Classify

InitTopic ==
  BuilderIdle /\ disk = PreviousFile /\ DurationIdle /\ TopicInit /\ PageIdle

SpecTopic == InitTopic /\ [][TopicNext]_vars

\* one page view of one feed, whatever the feed: the load and the controls
RenderNext ==
  \/ LoadLatestResolves \/ LimitChange \/ SortChange \/ QInput \/ TimerFires
  \/ DelayPasses

InitRender ==
  /\ BuilderIdle /\ DurationIdle /\ TopicIdle
  /\ newest \in ViewsFeeds \cup TextFeeds
  /\ PageInit({newest}, {JSONstringify(newest)})

SpecRender == InitRender /\ [][RenderNext]_vars

\* one page view with the reload button, while the builder may replace the file
PageNext ==
  \/ LoadLatestResolves \/ ReloadClick \/ LimitChange \/ SortChange
  \/ QInput \/ TimerFires \/ DelayPasses \/ BuilderWrites

InitPage ==
  /\ BuilderIdle /\ DurationIdle /\ TopicIdle
  /\ newest \in PageFeeds
  /\ PageInit({newest}, {PreviousFile})

SpecPage == InitPage /\ [][PageNext]_vars

\* one page view of one feed, with the clock: typing, the controls, the timers
SearchNext ==
  \/ LoadLatestResolves \/ LimitChange \/ SortChange \/ QInput \/ TimerFires
  \/ Tick \/ DelayPasses

InitSearch ==
  /\ BuilderIdle /\ DurationIdle /\ TopicIdle
  /\ newest \in PageFeeds
  /\ PageInit({newest}, {JSONstringify(newest)})

SpecSearch == InitSearch /\ [][SearchNext]_vars

(***************************************************************************)
(* Claims about the builder.                                               *)
(***************************************************************************)
NoDuplicates(s) == \A i, j \in 1..Len(s) : s[i] = s[j] => i = j

\* C1, as stated: the identifier set handed to the Detail Fetcher holds no
\* identifier twice and at most --max identifiers, and a further query is
\* issued only while the target is not reached.
C1_SetCappedByTarget ==
  /\ call.kind = "getVideoDetails" =>
       /\ NoDuplicates(Concat(groups))
       /\ Len(Concat(groups)) <= opt.maxItems
  /\ (pc = "fetchJson" /\ call.kind = "searchIds" /\ qi > 1) => Len(idSet) < opt.maxItems

\* C1, amended: the identifier set holds no identifier twice and holds exactly
\* the identifiers the search responses carried; every query of the list is
\* issued whatever the size of the set, the whole set is handed to the Detail
\* Fetcher, and --max caps only the number of items of the written feed.
C1_SetUniqueFeedCapped ==
  /\ NoDuplicates(idSet)
  /\ Range(idSet) = seen
  /\ call.kind = "getVideoDetails" => (Concat(groups) = idSet /\ qi = Len(queries))
  /\ writes > 0 => Len(disk.items) <= opt.maxItems

\* C1: a run that collected more identifiers than --max and wrote a full feed
C1_Witness ==
  /\ pc = "exit"
  /\ writes = 1
  /\ Len(idSet) > opt.maxItems
  /\ Len(disk.items) = opt.maxItems

\* C2: a run ends either with exit code 0 and latest.json written, or with a
\* non-zero exit code and latest.json never written, the previous file intact.
C2_WriteOrAbort ==
  pc = "exit" =>
    \/ exitCode = 0 /\ writes = 1
    \/ exitCode # 0 /\ writes = 0 /\ disk = PreviousFile

\* the video has none of the data errors and passes the filter of main
IsValidVideo(v) == IsCandidate(v) /\ ~Falsy(v.id) /\ ~Falsy(v.title)

\* C3: once the details are fetched, a video with a data error is skipped: the
\* run does not die of validation, and the written feed is the valid videos,
\* ranked and cut to --max.
C3_DataErrorSkipped ==
  (pc = "exit" /\ fatal \in {"none", "validation", "selftest"}) =>
    /\ fatal # "validation"
    /\ writes = 1
    /\ JSONparse(disk).items = Top(SelectSeq(out, IsValidVideo), opt.maxItems)

\* C4, as stated: one call issues at most 3 requests; a rate-limit or 5xx
\* response before the last attempt is followed by a sleep of delayMs * attempt
\* and another request; an OK response makes the call return; a failure of
\* the last attempt makes it throw.
C4_RetryTransient ==
  /\ call.requests <= 3
  /\ \A i \in 1..Len(call.sleeps) : call.sleeps[i] = 500 * i
  /\ (call.requests \in 1..2 /\ call.lastStatus \in ({403, 429} \cup (500..599))) =>
       (call.result = "pending" /\ Len(call.sleeps) = call.requests)
  /\ (call.requests >= 1 /\ call.lastStatus \in 200..299) => call.result = "returned"
  /\ (call.requests = 3 /\ call.lastStatus \notin 200..299) => call.result = "thrown"

\* C4, amended: one call issues at most 3 requests; a response with status
\* 403, 429, 500, 502, 503 or 504 before the last attempt is followed by a
\* sleep of delayMs * attempt and another request to the same URL; any other
\* failure status (501 among them) makes the call throw at once; an OK
\* response ends the call: it returns the body when the body is JSON and
\* throws when it is not; a failure of the last attempt makes it throw.
C4_RetryListed ==
  /\ call.requests <= 3
  /\ \A i \in 1..Len(call.sleeps) : call.sleeps[i] = 500 * i
  /\ (call.requests \in 1..2 /\ call.lastStatus \in {403, 429, 500, 502, 503, 504}) =>
       (call.result = "pending" /\ Len(call.sleeps) = call.requests)
  /\ (call.requests >= 1 /\ call.lastStatus \notin ({403, 429, 500, 502, 503, 504} \cup (200..299))) =>
       (call.result = "thrown" /\ exitCode = 1 /\ Len(call.sleeps) = call.requests - 1)
  /\ (call.requests >= 1 /\ call.lastStatus \in 200..299) =>
       /\ Len(call.sleeps) = call.requests - 1
       /\ \/ call.result = "returned" /\ data.parses /\ pc = call.kind
          \/ call.result = "thrown" /\ fatal = "json" /\ exitCode = 1
  /\ (call.requests = 3 /\ call.lastStatus \notin 200..299) =>
       (call.result = "thrown" /\ exitCode = 1 /\ Len(call.sleeps) = 2)
  /\ call.result = "pending" => call.attempt = call.requests + 1

\* C4: a call that returned on its third request, after two retries
C4_Witness ==
  /\ call.result = "returned"
  /\ call.requests = 3
  /\ call.sleeps = <<500, 1000>>

\* C5: a response with a 4xx status other than the rate-limit statuses (403
\* quota, 429) ends the call at once, on any attempt: the call throws, the
\* run exits, and no sleep and no request follows that response.
C5_PermanentIsFatal ==
  (call.requests >= 1 /\ call.lastStatus \in (400..499) \ {403, 429}) =>
    /\ call.result = "thrown"
    /\ pc = "exit"
    /\ exitCode = 1
    /\ Len(call.sleeps) = call.requests - 1

\* C5: a 404 that answered the second attempt
C5_Witness ==
  /\ call.lastStatus = 404
  /\ call.requests = 2
  /\ call.result = "thrown"

(***************************************************************************)
(* Claims about parseISODurationToSec and topicFromTitle.                  *)
(***************************************************************************)
\* u is digits followed by the letter
IsPart(u, letter) ==
  Len(u) >= 2 /\ u[Len(u)] = letter /\ AllDigits(SubSeq(u, 1, Len(u) - 1))

PartValue(u) == IF u = <<>> THEN 0 ELSE DecimalValue(SubSeq(u, 1, Len(u) - 1))

\* the ways to cut s after "PT" into an hours, a minutes and a seconds part,
\* each empty or digits and its letter
HMSCuts(s) ==
  {c \in (2..Len(s)) \X (2..Len(s)) :
     /\ c[1] <= c[2]
     /\ SubSeq(s, 3, c[1]) = <<>> \/ IsPart(SubSeq(s, 3, c[1]), "H")
     /\ SubSeq(s, c[1] + 1, c[2]) = <<>> \/ IsPart(SubSeq(s, c[1] + 1, c[2]), "M")
     /\ SubSeq(s, c[2] + 1, Len(s)) = <<>> \/ IsPart(SubSeq(s, c[2] + 1, Len(s)), "S")}

\* s is PT followed by at least one of #H, #M, #S, in that order
IsHMSCombination(s) ==
  Len(s) > 2 /\ s[1] = "P" /\ s[2] = "T" /\ HMSCuts(s) # {}

ExpectedSeconds(s) ==
  LET c == CHOOSE c \in HMSCuts(s) : TRUE
  IN PartValue(SubSeq(s, 3, c[1])) * 3600
     + PartValue(SubSeq(s, c[1] + 1, c[2])) * 60
     + PartValue(SubSeq(s, c[2] + 1, Len(s)))

\* C9: for a duration that is an hours/minutes/seconds combination the parser
\* returns hours*3600 + minutes*60 + seconds; for every other input (not a
\* string, empty, wrong order, other designators, no component at all) it
\* returns null, and main does not keep the video.
C9_ExactOrUnknown ==
  verdict \in {"parsed", "skipped", "kept"} =>
    IF cdDuration.type = "string" /\ IsHMSCombination(cdDuration.str)
    THEN durationSec = JNum(ExpectedSeconds(cdDuration.str))
    ELSE durationSec = JNull /\ verdict # "kept"

\* rule r has a key that occurs in the text, whatever the case of either
ClaimRuleMatches(r, text) ==
  \E k \in 1..Len(rules[r].keys) :
    includes(toLowerCase(text), toLowerCase(rules[r].keys[k]))

\* the label of the first rule that matches the text, or the fallback
ClaimFirstMatch(text) ==
  IF \A r \in 1..Len(rules) : ~ClaimRuleMatches(r, text) THEN Unclassified
  ELSE rules[CHOOSE r \in 1..Len(rules) :
               ClaimRuleMatches(r, text) /\ \A r2 \in 1..(r - 1) : ~ClaimRuleMatches(r2, text)].topic

\* C8, as stated: the topic is one label of the vocabulary, that of the first
\* rule with a key occurring in the title joined with the channel name.
C8_TitleAndChannel ==
  topic # <<>> =>
    /\ topic \in Vocabulary
    /\ \/ topic = ClaimFirstMatch(video.title.str \o video.channel_title.str)
       \/ topic = ClaimFirstMatch(video.title.str \o <<" ">> \o video.channel_title.str)

\* C8, amended: the topic is one label of the vocabulary, a function of the
\* title alone: that of the first rule, in the fixed order, with a key that is
\* a case-insensitive substring of the title, or the fallback label when no
\* rule matches the title; the channel name is not read.
C8_TitleOnly ==
  topic # <<>> =>
    /\ topic \in Vocabulary
    /\ topic = ClaimFirstMatch(video.title.str)

\* C8: a classified video whose channel name alone holds a key
C8_Witness ==
  /\ topic = Unclassified
  /\ video.title.str # <<>>
  /\ ClaimFirstMatch(video.channel_title.str) # Unclassified


(***************************************************************************)
(* Claims about the page.                                                  *)
(***************************************************************************)
HasViews(it) == it.views.type = "number"
NoViews(it) == it.views.type # "number"

\* larger count first, among items that have a count
CmpKnownDesc(a, b) == b.views.num - a.views.num

ByKnownDesc(s) == [i \in 1..Len(s) |-> [j \in 1..Len(s) |-> CmpKnownDesc(s[i], s[j])]]

\* the ranking the claim describes: the known counts, largest first, then the
\* items without one
ClaimedRanking(items) ==
  LET known == SelectSeq(items, HasViews)
  IN SortStable(known, ByKnownDesc(known)) \o SelectSeq(items, NoViews)

\* the items of the snapshot the view was filtered down to
ViewMatching ==
  LET q == toLowerCase(trim(view.q))
      Test(it) == Matches(it, q)
  IN IF q # <<>> THEN SelectSeq(RAW.doc.items, Test) ELSE RAW.doc.items

\* C6: with the view-count sort the page shows the first min(L, n) of the n
\* matching items ordered by view count, largest first, items of equal count
\* in feed order, and every item without a count after every item with one,
\* a count of 0 included.
C6_MissingViewsLast ==
  (view.rendered /\ view.sort = "views_desc")
    => view.shown = Slice(ClaimedRanking(ViewMatching), LimitOf(view.limit))

\* the places of the loaded items whose title contains the text as typed
TitleHits(text) ==
  {i \in 1..Len(RAW.doc.items) : includes(OrEmpty(RAW.doc.items[i].title).str, text)}

\* the places whose lowercased title contains the trimmed, lowercased text
TitleHitsFolded(text) ==
  {i \in 1..Len(RAW.doc.items) :
     includes(toLowerCase(OrEmpty(RAW.doc.items[i].title).str), toLowerCase(trim(text)))}

\* the places whose lowercased channel name or topic contains it
OtherHitsFolded(text) ==
  {i \in 1..Len(RAW.doc.items) :
     \/ includes(toLowerCase(OrEmpty(RAW.doc.items[i].channel_title).str),
                 toLowerCase(trim(text)))
     \/ includes(toLowerCase(OrEmpty(RAW.doc.items[i].topic).str),
                 toLowerCase(trim(text)))}

\* the view shows the loaded item at place i and nothing else
ShowsOnly(i) == view.matched = 1 /\ view.shown = <<RAW.doc.items[i]>>

\* C7 as stated: the page loads the items the builder wrote, same count and
\* same field values, and a search string that is a substring of exactly one
\* item's title yields exactly that item, shown count 1.
C7_RoundTripTitleSearch ==
  RAW.set =>
    /\ RAW.doc = newest
    /\ (view.rendered /\ view.q # <<>> /\ Cardinality(TitleHits(view.q)) = 1)
         => ShowsOnly(CHOOSE i \in TitleHits(view.q) : TRUE)

\* C7 amended: the page loads the items the builder wrote, same count and same
\* field values, and a search string that, trimmed and lowercased, is not
\* empty and occurs in the lowercased title of exactly one item and in the
\* lowercased channel name or topic of no other item yields exactly that
\* item, shown count 1.
C7_RoundTripFoldedSearch ==
  RAW.set =>
    /\ RAW.doc = newest
    /\ (/\ view.rendered
        /\ toLowerCase(trim(view.q)) # <<>>
        /\ Cardinality(TitleHitsFolded(view.q)) = 1
        /\ OtherHitsFolded(view.q) \subseteq TitleHitsFolded(view.q))
         => ShowsOnly(CHOOSE i \in TitleHitsFolded(view.q) : TRUE)

\* a feed of two items with a quote in a title was loaded and a search typed
\* with an upper-case letter and a trailing space picked one item out
C7_Witness ==
  /\ RAW.set /\ view.rendered
  /\ Len(RAW.doc.items) = 2
  /\ \E i \in 1..2 : RAW.doc.items[i].title = JStr(TitlePlain)
  /\ view.q = <<"B", " ">>
  /\ Cardinality(TitleHitsFolded(view.q)) = 1
  /\ OtherHitsFolded(view.q) \subseteq TitleHitsFolded(view.q)
  /\ view.matched = 1

\* C10 as stated: once set, RAW is never set again in the page view, and no
\* later step starts a fetch.
C10_SetOnceNoRefetch ==
  [][/\ RAW.set => RAW' = RAW
     /\ BagCardinality(inflight') <= BagCardinality(inflight)]_vars

\* C10 amended: RAW is set only when a fetch of the feed succeeds, the one of
\* the startup or one a reload click started, and is then the fetched
\* document; a change of the limit, of the sort or of the search text, and
\* the timer of the search, never start a fetch and never change RAW; a
\* reload click starts one fetch and changes neither RAW nor the view; and
\* whatever is rendered is rendered from the RAW of that moment.
C10_SnapshotOnlyFromFetch ==
  [][/\ RAW' # RAW =>
          \E r \in BagToSet(inflight) :
            /\ r.ok
            /\ inflight' = inflight (-) SetToBag({r})
            /\ RAW' = [set |-> TRUE, doc |-> JSONparse(r.text)]
     /\ (limitSelect' # limitSelect \/ sortSelect' # sortSelect
           \/ qInput' # qInput \/ timers' # timers)
          => RAW' = RAW /\ inflight' = inflight
     /\ BagCardinality(inflight') > BagCardinality(inflight) =>
          /\ BagCardinality(inflight') = BagCardinality(inflight) + 1
          /\ RAW' = RAW /\ view' = view
     /\ view' # view =>
          /\ RAW'.set
          /\ view' = RenderView(RAW'.doc, limitSelect', sortSelect', qInput')]_vars

\* the page has rendered a snapshot and a reload is in flight
C10_Witness ==
  RAW.set /\ view.rendered /\ BagCardinality(inflight) >= 1 /\ disk # PreviousFile


(***************************************************************************)
(* Claims about the search input.                                          *)
(***************************************************************************)
\* C11: the search input is debounced. At most one timer is pending at any
\* time; an input event cancels the pending timer of the previous one, sets
\* one timer with the whole delay and renders nothing itself; a timer that
\* fires is the one of the last input event, and fires only once the delay
\* (120 ms) has passed since that event; a change of the limit or of the
\* sort sets no timer and renders in the same step, from the new value.
C11_Debounced ==
  [][/\ Cardinality(timers') <= 1
     /\ qInput' # qInput =>
          /\ winT' \notin timers
          /\ timers' = {winT'}
          /\ left'[winT'] = DebounceMs
          /\ view' = view
     /\ (qInput' = qInput /\ timers' # timers) =>
          /\ timers = {winT}
          /\ timers' = {}
          /\ sinceInput >= DebounceMs
          /\ RAW.set => view' = RenderView(RAW.doc, limitSelect, sortSelect, qInput)
     /\ (limitSelect' # limitSelect \/ sortSelect' # sortSelect) =>
          /\ timers' = timers
          /\ left' = left
          /\ RAW.set => view' = RenderView(RAW.doc, limitSelect', sortSelect', qInput')]_vars

\* two input events were typed, the later one's timer has fired after its
\* delay and the page shows the items filtered by the text typed last
C11_Witness ==
  /\ RAW.set /\ view.rendered
  /\ winT >= 2
  /\ timers = {}
  /\ sinceInput = DebounceMs
  /\ qInput # <<>>
  /\ view.q = qInput
  /\ view.matched < view.total


====
